---- MODULE Spec2Model ----
(***************************************************************************)
(* State-machine model of promptstudio/main.py: the in-memory account      *)
(* registry (users_db), the session store (sessions), the free-tier usage  *)
(* metering (check_usage_limit and its helpers) and the Stripe             *)
(* checkout/webhook routes.                                                *)
(*                                                                         *)
(* Every route is an `async def` whose body, from its first statement to   *)
(* its return, contains no await on the shared maps (the only await of the *)
(* file, `await request.body()` in stripe_webhook, comes before any access *)
(* to them).  The event loop therefore runs each handler body to           *)
(* completion before it starts another one: one action of this module is   *)
(* one handler body, and concurrent requests are every interleaving of     *)
(* these actions with arbitrary inputs.                                    *)
(*                                                                         *)
(* A handler is an operator of the current maps and its inputs giving its  *)
(* outcome, the record [response, users_db, sessions]; the action of the   *)
(* route installs that outcome.  Helpers that read or write a map take it  *)
(* as a parameter (U for users_db, S for sessions).                        *)
(***************************************************************************)
EXTENDS Integers, FiniteSets, Sequences, TLC

\* ------------------------------------------------------------ bounds
\* Cap on the metered check_usage_limit calls recorded at any time, summed
\* over the live sessions and the tools.
MaxCalls == 4

\* ------------------------------------------------------------ values
\* Python's None (an absent cookie, an absent JSON field, a missing dict key).
None == "None"
\* Registered-name / e-mail universe of the form fields and webhook payloads.
Names == {"alice@example.com", "bob@example.com"}
\* Password form values.
Passwords == {"pw", "other"}
\* Values secrets.token_urlsafe(32) can return.
Tokens == {"tokA", "tokB"}
\* Values of the session_id cookie a client can present.
Cookies == Tokens \cup {None, ""}
\* tool_name arguments of the tool routes.
Tools == {"sora", "runway"}
\* What a checkout request finds outside the process: os.getenv("STRIPE_PRICE_ID")
\* (read anew by every request), and whether stripe.checkout.Session.create
\* returns a session or raises.
CheckoutEnvs ==
    {[price |-> None, stripe_ok |-> FALSE],
     [price |-> "price_123", stripe_ok |-> TRUE],
     [price |-> "price_123", stripe_ok |-> FALSE]}
\* event.type values.
CheckoutCompleted == "checkout.session.completed"
EventTypes == {CheckoutCompleted, "invoice.paid"}
\* The "customer_details" member of the checkout object: missing, JSON null,
\* or an object whose "email" is a string, or is missing/null (None).
Details ==
    {[tag |-> "absent", email |-> None], [tag |-> "null", email |-> None]}
    \cup {[tag |-> "object", email |-> e] : e \in Names \cup {None}}
\* The "customer_email" member: None when missing or null.
Emails == Names \cup {None, ""}
NoDetails == [tag |-> "absent", email |-> None]
\* Webhook requests: the payload's content and what
\* stripe.Webhook.construct_event makes of (payload, signature header, secret):
\* verify is "event" when it returns the event, or the exception it raises.  Verified checkout-completed events take every shape of the
\* checkout object; events of another type and events whose signature does
\* not verify (checkout-completed ones), whose checkout object the handler
\* never reads, vary in customer_email only; a payload that cannot be parsed
\* has no content.
Events ==
    [verify : {"event"}, type : {CheckoutCompleted},
     customer_email : Emails, customer_details : Details]
    \cup [verify : {"event"}, type : EventTypes \ {CheckoutCompleted},
          customer_email : Emails, customer_details : {NoDetails}]
    \cup [verify : {"SignatureVerificationError"}, type : {CheckoutCompleted},
          customer_email : Emails, customer_details : {NoDetails}]
    \cup {[verify |-> "ValueError", type |-> None, customer_email |-> None,
            customer_details |-> NoDetails]}
\* Python truthiness of an Optional[str].
Truthy(x) == x # None /\ x # ""
\* The dict literal {}.
EmptyDict == [k \in {} |-> 0]

VARIABLES
    users_db,   \* username -> [password, is_pro]
    sessions,   \* session_id -> [kind, username, counts]
    response,   \* the response of the handler that ran last
    issued,     \* history: token -> username given to create_session
    deleted,    \* history: issued tokens that logout was called with
    calls,      \* history: per session and tool, metered calls while free
    allowed,    \* history: per session and tool, those that were let through
    upgraded    \* history: names a verified checkout-completed event named

vars == <<users_db, sessions, response, issued, deleted, calls, allowed, upgraded>>

\* ------------------------------------------------------------ helpers
\* The usage ceiling of check_usage_limit.
FreeLimit == 3

\* The record create_session stores.  kind tells the dict shape from the
\* legacy shape (the bare username string) that the readers still accept.
NewSession(username) == [kind |-> "dict", username |-> username, counts |-> EmptyDict]

\* d[k] = v on a dict, creating the key when it is missing.
Put(d, k, v) == [x \in DOMAIN d \cup {k} |-> IF x = k THEN v ELSE d[x]]

\* del d[k]
Del(d, k) == [x \in DOMAIN d \ {k} |-> d[x]]

\* create_session storing the old format, the bare username, that the readers
\* still accept.
create_session_legacy(S, username, session_id) ==
    Put(S, session_id, [kind |-> "legacy", username |-> username, counts |-> EmptyDict])

\* create_session keeping one session per user: the user's earlier records are
\* dropped when a new one is stored.
create_session_single(S, username, session_id) ==
    LET others == {t \in DOMAIN S : S[t].username # username} IN
    Put([t \in others |-> S[t]], session_id, NewSession(username))

\* create_session: the store afterwards; session_id is the value
\* secrets.token_urlsafe(32) returned.
create_session(S, username, session_id) ==
    Put(S, session_id, NewSession(username))

\* get_username_from_session: the dict's "username", or the legacy value itself.
get_username_from_session(S, session_id) ==
    IF Truthy(session_id) /\ session_id \in DOMAIN S
    THEN S[session_id].username
    ELSE None

\* get_session_data finds a record for session_id.
has_session_data(S, session_id) ==
    Truthy(session_id) /\ session_id \in DOMAIN S

\* get_session_data storing an empty record for a token it does not find.
get_session_data_creates(S, session_id) ==
    IF ~Truthy(session_id) THEN S
    ELSE IF session_id \notin DOMAIN S THEN Put(S, session_id, NewSession(None))
    ELSE IF S[session_id].kind # "dict"
    THEN [S EXCEPT ![session_id] = NewSession(S[session_id].username)]
    ELSE S

\* The store after get_session_data: a legacy record is rewritten into the dict
\* shape, anything else is left alone.
get_session_data(S, session_id) ==
    IF has_session_data(S, session_id) /\ S[session_id].kind # "dict"
    THEN [S EXCEPT ![session_id] = NewSession(S[session_id].username)]
    ELSE S

is_user_pro(U, username) ==
    IF Truthy(username) /\ username \in DOMAIN U
    THEN U[username].is_pro
    ELSE FALSE

\* counts.get(tool_name, 0)
CountOf(counts, tool_name) ==
    IF tool_name \in DOMAIN counts THEN counts[tool_name] ELSE 0

\* increment_usage writing 1 instead of adding 1: the update of a reader that
\* did not see the earlier increments.
increment_usage_lost(S, session_id, tool_name) ==
    IF has_session_data(S, session_id)
    THEN [S EXCEPT ![session_id].counts = Put(@, tool_name, 1)]
    ELSE S

\* increment_usage keeping the count per user: the counter is raised in every
\* session of the token's owner.
increment_usage_per_user(S, session_id, tool_name) ==
    IF ~Truthy(session_id) THEN S
    ELSE LET S1 == get_session_data(S, session_id) IN
         IF has_session_data(S1, session_id)
         THEN [t \in DOMAIN S1 |->
                  IF S1[t].username = S1[session_id].username
                  THEN [S1[t] EXCEPT !.counts =
                           Put(@, tool_name, CountOf(@, tool_name) + 1)]
                  ELSE S1[t]]
         ELSE S1

\* increment_usage counting a call twice.
increment_usage_twice(S, session_id, tool_name) ==
    IF ~Truthy(session_id) THEN S
    ELSE LET S1 == get_session_data(S, session_id) IN
         IF has_session_data(S1, session_id)
         THEN [S1 EXCEPT ![session_id].counts =
                  Put(@, tool_name, CountOf(@, tool_name) + 2)]
         ELSE S1

\* increment_usage: the store afterwards.
increment_usage(S, session_id, tool_name) ==
    IF ~Truthy(session_id) THEN S
    ELSE LET S1 == get_session_data(S, session_id) IN
         IF has_session_data(S1, session_id)
         THEN [S1 EXCEPT ![session_id].counts =
                  Put(@, tool_name, CountOf(@, tool_name) + 1)]
         ELSE S1

\* get_usage_count: the value returned (the store afterwards is that of
\* get_session_data).
get_usage_count(S, session_id, tool_name) ==
    IF has_session_data(S, session_id)
    THEN CountOf(get_session_data(S, session_id)[session_id].counts, tool_name)
    ELSE 0

\* get_usage_count: the store afterwards; get_session_data is its only call
\* that can write.
get_usage_count_store(S, session_id, tool_name) ==
    IF ~Truthy(session_id) THEN S ELSE get_session_data(S, session_id)

\* check_usage_limit comparing with > instead of >=.
check_usage_limit_off_by_one(U, S, session_id, username, tool_name) ==
    IF is_user_pro(U, username)
    THEN [limited |-> FALSE, sessions |-> S]
    ELSE IF get_usage_count(S, session_id, tool_name) > FreeLimit
         THEN [limited |-> TRUE, sessions |-> S]
         ELSE [limited |-> FALSE, sessions |-> increment_usage(S, session_id, tool_name)]

\* check_usage_limit without the is_user_pro shortcut.
check_usage_limit_meters_pro(U, S, session_id, username, tool_name) ==
    IF get_usage_count(S, session_id, tool_name) >= FreeLimit
    THEN [limited |-> TRUE, sessions |-> S]
    ELSE [limited |-> FALSE, sessions |-> increment_usage(S, session_id, tool_name)]

\* check_usage_limit: limited is TRUE when the limit_reached page is returned,
\* FALSE when None is returned; sessions is the store afterwards.
check_usage_limit(U, S, session_id, username, tool_name) ==
    IF is_user_pro(U, username)
    THEN [limited |-> FALSE, sessions |-> S]
    ELSE LET S1 == get_session_data(S, session_id)
             usage_count == get_usage_count(S, session_id, tool_name)
         IN IF usage_count >= FreeLimit
            THEN [limited |-> TRUE, sessions |-> S1]
            ELSE [limited |-> FALSE, sessions |-> increment_usage(S1, session_id, tool_name)]

\* delete_session logging the user out everywhere: every record of the
\* token's owner is removed.
delete_session_by_user(S, session_id) ==
    IF Truthy(session_id) /\ session_id \in DOMAIN S
    THEN LET kept == {t \in DOMAIN S : S[t].username # S[session_id].username}
         IN [t \in kept |-> S[t]]
    ELSE S

\* delete_session that forgets the del.
delete_session_keeps(S, session_id) == S

\* delete_session: the store afterwards.
delete_session(S, session_id) ==
    IF Truthy(session_id) /\ session_id \in DOMAIN S
    THEN Del(S, session_id)
    ELSE S

\* require_login: the username, or None when the RedirectResponse is returned.
require_login(S, session_id) ==
    LET username == get_username_from_session(S, session_id)
    IN IF ~Truthy(username) THEN None ELSE username

\* The credential test without the password comparison.
authenticates_name_only(U, username, password) ==
    username \in DOMAIN U

\* The credential test of login_post.
authenticates(U, username, password) ==
    username \in DOMAIN U /\ U[username].password = password

\* ------------------------------------------------------------ responses
\* A response: the route that answered, its HTTP status and what it carries
\* (the template rendered, the redirect target or the JSON message).
Resp(op, status, body) == [op |-> op, status |-> status, body |-> body]

AlreadyExists       == Resp("register", "200", "register.html: Username already exists")
Registered          == Resp("register", "302", "/login")
LoggedIn            == Resp("login", "302", "/dashboard")
AuthFailure         == Resp("login", "200", "login.html: Invalid username or password")
LoggedOut           == Resp("logout", "302", "/")
Unauthenticated(op) == Resp(op, "302", "/")
Allowed             == Resp("tool", "200", "generated_prompt")
LimitReached        == Resp("tool", "200", "limit_reached.html")
ConfigError         == Resp("checkout", "500", "PRICE_ID is missing in environment")
CheckoutUrl         == Resp("checkout", "200", "checkout_url")
ProcessorError      == Resp("checkout", "500", "error, error_type")
InvalidPayload      == Resp("webhook", "400", "Invalid payload")
InvalidSignature    == Resp("webhook", "400", "Invalid signature")
Acknowledged        == Resp("webhook", "200", "success")
\* The server's answer to an exception that escapes a handler.
InternalError(op)   == Resp(op, "500", "Internal Server Error")

\* What a handler leaves behind.
Outcome(resp, U, S) == [response |-> resp, users_db |-> U, sessions |-> S]

\* ------------------------------------------------------------ handlers
\* register_post without the "already exists" test.
register_post_overwrites(username, password) ==
    Outcome(Registered,
            Put(users_db, username, [password |-> password, is_pro |-> FALSE]),
            sessions)

\* POST /register
register_post(username, password) ==
    IF username \in DOMAIN users_db
    THEN Outcome(AlreadyExists, users_db, sessions)
    ELSE Outcome(Registered,
                 Put(users_db, username, [password |-> password, is_pro |-> FALSE]),
                 sessions)

\* login_post telling an unknown name from a wrong password in its error.
login_post_names_unknown(username, password, session_id) ==
    IF authenticates(users_db, username, password)
    THEN Outcome(LoggedIn, users_db, create_session(sessions, username, session_id))
    ELSE IF username \in DOMAIN users_db
    THEN Outcome(AuthFailure, users_db, sessions)
    ELSE Outcome(Resp("login", "200", "login.html: Unknown username"),
                 users_db, sessions)

\* POST /login; session_id is the token create_session draws.
login_post(username, password, session_id) ==
    IF authenticates(users_db, username, password)
    THEN Outcome(LoggedIn, users_db, create_session(sessions, username, session_id))
    ELSE Outcome(AuthFailure, users_db, sessions)

\* GET /logout
logout(session_id) ==
    Outcome(LoggedOut, users_db, delete_session(sessions, session_id))

\* A tool route that lost its require_login lines and goes straight to
\* check_usage_limit with whatever get_current_username returned.
tool_generate_unguarded(session_id, tool_name) ==
    LET username == get_username_from_session(sessions, session_id)
        limit_check ==
            check_usage_limit(users_db, sessions, session_id, username, tool_name)
    IN Outcome(IF limit_check.limited THEN LimitReached ELSE Allowed,
               users_db, limit_check.sessions)

\* POST /tool/sora, /tool/runway, /tool/pika, /tool/scene, /tool/thumbnail,
\* /tool/viral: the six handlers differ in tool_name and in the template text.
tool_generate(session_id, tool_name) ==
    LET username == require_login(sessions, session_id) IN
    IF username = None
    THEN Outcome(Unauthenticated("tool"), users_db, sessions)
    ELSE LET limit_check ==
                 check_usage_limit(users_db, sessions, session_id, username, tool_name)
         IN Outcome(IF limit_check.limited THEN LimitReached ELSE Allowed,
                    users_db, limit_check.sessions)

\* What create_checkout_session leaves behind: neither map is written, and
\* processor_called tells whether stripe.checkout.Session.create was called.
Checkout(resp, processor_called) ==
    [response |-> resp, users_db |-> users_db, sessions |-> sessions,
     processor_called |-> processor_called]

\* The handler marking the user pro as soon as the checkout is created.
create_checkout_session_upgrades(session_id, env) ==
    LET username == require_login(sessions, session_id) IN
    IF username = None THEN Checkout(Unauthenticated("checkout"), FALSE)
    ELSE IF env.price = None THEN Checkout(ConfigError, FALSE)
    ELSE IF env.stripe_ok
    THEN [Checkout(CheckoutUrl, TRUE) EXCEPT
             !.users_db = IF username \in DOMAIN users_db
                          THEN [users_db EXCEPT ![username].is_pro = TRUE]
                          ELSE users_db]
    ELSE Checkout(ProcessorError, TRUE)

\* The handler without the `price_id is None` test: the missing price goes
\* to the processor, whose error comes back.
create_checkout_session_unchecked(session_id, env) ==
    LET username == require_login(sessions, session_id) IN
    IF username = None THEN Checkout(Unauthenticated("checkout"), FALSE)
    ELSE IF env.price # None /\ env.stripe_ok THEN Checkout(CheckoutUrl, TRUE)
    ELSE Checkout(ProcessorError, TRUE)

\* POST /create-checkout-session
create_checkout_session(session_id, env) ==
    LET username == require_login(sessions, session_id) IN
    IF username = None THEN Checkout(Unauthenticated("checkout"), FALSE)
    ELSE IF env.price = None THEN Checkout(ConfigError, FALSE)
    ELSE IF env.stripe_ok THEN Checkout(CheckoutUrl, TRUE)
    ELSE Checkout(ProcessorError, TRUE)

\* A handler that treats only an unparsable payload as a failure.
construct_event_raises_unsigned(ev) == ev.verify = "ValueError"

\* stripe.Webhook.construct_event raised ValueError or
\* SignatureVerificationError, both caught by the handler.
construct_event_raises(ev) == ev.verify # "event"

\* a or b
Or(a, b) == IF Truthy(a) THEN a ELSE b

\* session.get("customer_details", {}).get("email") raises AttributeError when
\* "customer_details" is present and null (.get returns the None that is
\* stored, not the default); it is evaluated only when customer_email is falsy.
email_lookup_raises(ev) ==
    ~Truthy(ev.customer_email) /\ ev.customer_details.tag = "null"

\* The lookup with the two sources in the other order.
extract_email_prefers_details(ev) == Or(ev.customer_details.email, ev.customer_email)

\* The lookup without the customer_details fallback.
extract_email_no_fallback(ev) == ev.customer_email

\* session.get("customer_email") or session.get("customer_details", {}).get("email")
extract_email(ev) == Or(ev.customer_email, ev.customer_details.email)

\* The webhook flipping is_pro instead of setting it.
stripe_webhook_toggles(ev) ==
    IF construct_event_raises(ev)
    THEN Outcome(IF ev.verify = "ValueError" THEN InvalidPayload ELSE InvalidSignature,
                 users_db, sessions)
    ELSE IF ev.type = CheckoutCompleted
    THEN IF email_lookup_raises(ev)
         THEN Outcome(InternalError("webhook"), users_db, sessions)
         ELSE LET customer_email == extract_email(ev) IN
              IF Truthy(customer_email) /\ customer_email \in DOMAIN users_db
              THEN Outcome(Acknowledged,
                           [users_db EXCEPT ![customer_email].is_pro = ~@],
                           sessions)
              ELSE Outcome(Acknowledged, users_db, sessions)
    ELSE Outcome(Acknowledged, users_db, sessions)

\* The webhook taking every verified event of another type for the end of the
\* subscription of the customer it names.
stripe_webhook_downgrades(ev) ==
    IF construct_event_raises(ev)
    THEN Outcome(IF ev.verify = "ValueError" THEN InvalidPayload ELSE InvalidSignature,
                 users_db, sessions)
    ELSE IF ev.type = CheckoutCompleted
    THEN IF email_lookup_raises(ev)
         THEN Outcome(InternalError("webhook"), users_db, sessions)
         ELSE LET customer_email == extract_email(ev) IN
              IF Truthy(customer_email) /\ customer_email \in DOMAIN users_db
              THEN Outcome(Acknowledged,
                           [users_db EXCEPT ![customer_email].is_pro = TRUE],
                           sessions)
              ELSE Outcome(Acknowledged, users_db, sessions)
    ELSE IF Truthy(ev.customer_email) /\ ev.customer_email \in DOMAIN users_db
    THEN Outcome(Acknowledged,
                 [users_db EXCEPT ![ev.customer_email].is_pro = FALSE],
                 sessions)
    ELSE Outcome(Acknowledged, users_db, sessions)

\* The webhook without the event.type test: every verified event upgrades.
stripe_webhook_any_type(ev) ==
    IF construct_event_raises(ev)
    THEN Outcome(IF ev.verify = "ValueError" THEN InvalidPayload ELSE InvalidSignature,
                 users_db, sessions)
    ELSE IF email_lookup_raises(ev)
    THEN Outcome(InternalError("webhook"), users_db, sessions)
    ELSE LET customer_email == extract_email(ev) IN
         IF Truthy(customer_email) /\ customer_email \in DOMAIN users_db
         THEN Outcome(Acknowledged,
                      [users_db EXCEPT ![customer_email].is_pro = TRUE],
                      sessions)
         ELSE Outcome(Acknowledged, users_db, sessions)

\* POST /webhook
stripe_webhook(ev) ==
    IF construct_event_raises(ev)
    THEN Outcome(IF ev.verify = "ValueError" THEN InvalidPayload ELSE InvalidSignature,
                 users_db, sessions)
    ELSE IF ev.type = CheckoutCompleted
    THEN IF email_lookup_raises(ev)
         THEN Outcome(InternalError("webhook"), users_db, sessions)
         ELSE LET customer_email == extract_email(ev) IN
              IF Truthy(customer_email) /\ customer_email \in DOMAIN users_db
              THEN Outcome(Acknowledged,
                           [users_db EXCEPT ![customer_email].is_pro = TRUE],
                           sessions)
              ELSE Outcome(Acknowledged, users_db, sessions)
    ELSE Outcome(Acknowledged, users_db, sessions)

\* ------------------------------------------------------------ observers
ZeroCounts == [t \in Tools |-> 0]

RECURSIVE SumOver(_, _)
\* The sum of f over the finite set D.
SumOver(f, D) ==
    IF D = {} THEN 0
    ELSE LET x == CHOOSE y \in D : TRUE IN f[x] + SumOver(f, D \ {x})

\* The metered calls on record.
TotalCalls == SumOver([t \in Tokens |-> SumOver(calls[t], Tools)], Tokens)

\* A verified checkout-completed event for the registered identity u: its
\* purchaser e-mail, customer_email or else customer_details.email, is u.
EventNames(ev, u) ==
    /\ ev.verify = "event"
    /\ ev.type = CheckoutCompleted
    /\ \/ ev.customer_email = u
       \/ ~Truthy(ev.customer_email) /\ ev.customer_details.tag = "object"
            /\ ev.customer_details.email = u

\* The handler's outcome becomes the state.
Install(o) ==
    /\ response' = o.response
    /\ users_db' = o.users_db
    /\ sessions' = o.sessions

\* A token generator that can repeat itself.
token_urlsafe_repeats == Tokens

\* The values secrets.token_urlsafe(32) can return to create_session: 256
\* random bits, so a token that was never handed out before.
token_urlsafe == Tokens \ DOMAIN issued

\* ------------------------------------------------------------ initial state
Init ==
    /\ users_db = EmptyDict
    /\ sessions = EmptyDict
    /\ response = Resp("none", "none", "none")
    /\ issued = EmptyDict
    /\ deleted = {}
    /\ calls = [t \in Tokens |-> ZeroCounts]
    /\ allowed = [t \in Tokens |-> ZeroCounts]
    /\ upgraded = {}

\* ------------------------------------------------------------ actions
RegisterRequest(username, password) ==
    /\ Install(register_post(username, password))
    /\ UNCHANGED <<issued, deleted, calls, allowed, upgraded>>

LoginRequest(username, password) ==
    /\ IF authenticates(users_db, username, password)
       THEN \E session_id \in token_urlsafe :
               /\ Install(login_post(username, password, session_id))
               /\ issued' = Put(issued, session_id, username)
       ELSE /\ Install(login_post(username, password, None))
            /\ UNCHANGED issued
    /\ UNCHANGED <<deleted, calls, allowed, upgraded>>

LogoutRequest(session_id) ==
    LET gone == {session_id} \cap DOMAIN issued
    IN /\ Install(logout(session_id))
       /\ deleted' = deleted \cup gone
       /\ calls' = [t \in Tokens |-> IF t \in gone THEN ZeroCounts ELSE calls[t]]
       /\ allowed' = [t \in Tokens |-> IF t \in gone THEN ZeroCounts ELSE allowed[t]]
       /\ UNCHANGED <<issued, upgraded>>

ToolRequest(session_id, tool_name) ==
    LET o == tool_generate(session_id, tool_name)
        username == get_username_from_session(sessions, session_id)
        metered == session_id \in DOMAIN sessions /\ ~is_user_pro(users_db, username)
    IN /\ metered => TotalCalls < MaxCalls
       /\ Install(o)
       /\ calls' = IF metered
                   THEN [calls EXCEPT ![session_id][tool_name] = @ + 1]
                   ELSE calls
       /\ allowed' = IF metered /\ o.response = Allowed
                     THEN [allowed EXCEPT ![session_id][tool_name] = @ + 1]
                     ELSE allowed
       /\ UNCHANGED <<issued, deleted, upgraded>>

WebhookRequest(ev) ==
    /\ Install(stripe_webhook(ev))
    /\ upgraded' = upgraded \cup {u \in DOMAIN users_db : EventNames(ev, u)}
    /\ UNCHANGED <<issued, deleted, calls, allowed>>

CheckoutRequest(session_id, env) ==
    /\ Install(create_checkout_session(session_id, env))
    /\ UNCHANGED <<issued, deleted, calls, allowed, upgraded>>

Next ==
    \/ \E username \in Names, password \in Passwords : RegisterRequest(username, password)
    \/ \E username \in Names, password \in Passwords : LoginRequest(username, password)
    \/ \E session_id \in Cookies : LogoutRequest(session_id)
    \/ \E session_id \in Cookies, tool_name \in Tools : ToolRequest(session_id, tool_name)
    \/ \E ev \in Events : WebhookRequest(ev)
    \/ \E session_id \in Cookies, env \in CheckoutEnvs : CheckoutRequest(session_id, env)

Spec == Init /\ [][Next]_vars

\* ------------------------------------------------------------ claims
Min(a, b) == IF a <= b THEN a ELSE b

\* currentCount(token, tool) of the current store.
CurrentCount(t, tool) == get_usage_count(sessions, t, tool)

\* The live sessions whose owner is on the free tier, and those whose owner is paid.
FreeSessions == {t \in DOMAIN sessions : ~is_user_pro(users_db, sessions[t].username)}
ProSessions == {t \in DOMAIN sessions : is_user_pro(users_db, sessions[t].username)}

\* C1: for a session of a free identity and any tool, of the N calls of
\* check_usage_limit made so far exactly the first 3 were let through (the
\* number let through is min(N, 3)), the next call is let through exactly when
\* N < 3 and gets the limit page otherwise, and the count read back is min(N, 3)
\* now and min(N + 1, 3) after the next call: 3 after the third call and after
\* every later one.
C1_FirstThreeAllowed ==
    \A t \in FreeSessions, tool \in Tools :
        LET o == tool_generate(t, tool) IN
        /\ allowed[t][tool] = Min(calls[t][tool], 3)
        /\ CurrentCount(t, tool) = Min(calls[t][tool], 3)
        /\ o.response = (IF calls[t][tool] < 3 THEN Allowed ELSE LimitReached)
        /\ get_usage_count(o.sessions, t, tool) = Min(calls[t][tool] + 1, 3)

\* The fourth call of a free session on one tool has just been refused.
C1_Witness ==
    /\ response = LimitReached
    /\ \E t \in FreeSessions, tool \in Tools :
          /\ calls[t][tool] = 4
          /\ allowed[t][tool] = 3
          /\ CurrentCount(t, tool) = 3

\* C2: a tool request on a session of a paid identity is let through, for
\* every tool and whatever the stored count is, and leaves the session store
\* (so that session's counter mapping) as it was.
C2_PaidUnmetered ==
    \A t \in ProSessions, tool \in Tools :
        LET o == tool_generate(t, tool) IN
        /\ o.response = Allowed
        /\ o.sessions = sessions

\* The only live session belongs to a paid identity, one of its counters is at
\* the ceiling, and the request that ran last was let through.
C2_Witness ==
    /\ response = Allowed
    /\ Cardinality(DOMAIN sessions) = 1
    /\ \A t \in DOMAIN sessions :
          /\ t \in ProSessions
          /\ \E tool \in Tools : CurrentCount(t, tool) = 3

\* C3: under every interleaving of the requests of all clients, the counter
\* of a free session equals the number of its requests that were let through
\* (no increment is lost), and neither ever exceeds 3.
C3_NoLostIncrement ==
    \A t \in FreeSessions, tool \in Tools :
        /\ CurrentCount(t, tool) = allowed[t][tool]
        /\ allowed[t][tool] <= 3
        /\ CurrentCount(t, tool) <= 3

\* Requests of two sessions of free identities on the same tool were
\* interleaved: one session has used the tool three times, the other once.
C3_Witness ==
    \E t1 \in FreeSessions, t2 \in FreeSessions, tool \in Tools :
        /\ t1 # t2
        /\ allowed[t1][tool] = 3
        /\ allowed[t2][tool] = 1

\* C4: a webhook request whose signature does not verify is answered 400 and
\* leaves the account registry as it was, also when its payload is a
\* checkout-completed event that names a registered identity.
C4_BadSignatureRejected ==
    \A ev \in Events :
        ev.verify = "SignatureVerificationError" =>
            LET o == stripe_webhook(ev) IN
            /\ o.response.status = "400"
            /\ o.users_db = users_db

\* A request with a bad signature was just rejected while a registered free
\* identity, which a payload can name, exists.
C4_Witness ==
    /\ response = InvalidSignature
    /\ \E u \in DOMAIN users_db : ~users_db[u].is_pro

\* C5: every webhook request is answered 400 or 200, and 200 whenever the
\* event passed signature verification and parsing.
C5_AlwaysAcknowledged ==
    [][\A ev \in Events :
          WebhookRequest(ev) =>
              /\ response'.status \in {"400", "200"}
              /\ ev.verify = "event" => response' = Acknowledged]_vars

\* The purchaser e-mail of a checkout object: customer_email, or else the
\* e-mail of customer_details when that is an object.
PurchaserEmail(ev) ==
    IF Truthy(ev.customer_email) THEN ev.customer_email
    ELSE IF ev.customer_details.tag = "object" THEN ev.customer_details.email
    ELSE None

\* C6: a verified checkout-completed event whose e-mail is the name of a
\* registered identity makes that identity paid and changes nothing else;
\* with no e-mail, or one that is no registered name, the event is
\* acknowledged and the registry and the session store stay as they were.
C6_UpgradeOnlyMatched ==
    [][\A ev \in Events :
          (ev.verify = "event" /\ ev.type = CheckoutCompleted /\ WebhookRequest(ev)) =>
              LET e == PurchaserEmail(ev) IN
              IF e \in DOMAIN users_db
              THEN /\ users_db' = [users_db EXCEPT ![e].is_pro = TRUE]
                   /\ sessions' = sessions
              ELSE /\ response' = Acknowledged
                   /\ users_db' = users_db
                   /\ sessions' = sessions]_vars

\* C7: once a verified checkout-completed event for identity u has been
\* processed, u is paid in every later state, and a tool request on any live
\* session of u is let through and leaves its counters where they were, also
\* for a counter that had reached the ceiling.
C7_PaidAfterWebhook ==
    \A u \in upgraded :
        /\ is_user_pro(users_db, u)
        /\ \A t \in DOMAIN sessions, tool \in Tools :
              sessions[t].username = u =>
                  LET o == tool_generate(t, tool) IN
                  /\ o.response = Allowed
                  /\ get_usage_count(o.sessions, t, tool) = CurrentCount(t, tool)

\* The only live session had three requests let through and a fourth refused
\* on one tool, then its owner was upgraded by a webhook event, and its next
\* request was let through with the counter still at 3.
C7_Witness ==
    /\ response = Allowed
    /\ \E t \in DOMAIN sessions, tool \in Tools :
          /\ DOMAIN sessions = {t}
          /\ sessions[t].username \in upgraded
          /\ calls[t][tool] = 4
          /\ allowed[t][tool] = 3
          /\ CurrentCount(t, tool) = 3

\* C8: register with a registered name answers "already exists" and leaves
\* that record's secret and flag as they were, so the old secret still
\* authenticates and a different new one does not; register with a new name
\* inserts the identity with the given secret and entitlement free.
C8_RegisterKeepsExisting ==
    \A name \in Names, pw \in Passwords :
        LET o == register_post(name, pw) IN
        IF name \in DOMAIN users_db
        THEN /\ o.response = AlreadyExists
             /\ o.users_db[name] = users_db[name]
             /\ authenticates(o.users_db, name, users_db[name].password)
             /\ pw # users_db[name].password => ~authenticates(o.users_db, name, pw)
        ELSE /\ o.response = Registered
             /\ name \in DOMAIN o.users_db
             /\ o.users_db[name] = [password |-> pw, is_pro |-> FALSE]

\* A registration was just refused while a paid identity exists.
C8_Witness ==
    /\ response = AlreadyExists
    /\ \E u \in DOMAIN users_db : users_db[u].is_pro

\* The cookie values create_session never returned.
NeverIssued == Cookies \ DOMAIN issued

\* C9: a token that logout was called with never resolves again, its session
\* record is never recreated, and every guarded route and logout treat it
\* exactly as they treat a token that was never issued: unauthenticated, with
\* the registry and the session store left as they were.
C9_DeletedLikeNeverIssued ==
    \A t \in deleted :
        /\ t \notin DOMAIN sessions
        /\ get_username_from_session(sessions, t) = None
        /\ \A tool \in Tools :
              /\ tool_generate(t, tool) = Outcome(Unauthenticated("tool"), users_db, sessions)
              /\ \A n \in NeverIssued : tool_generate(t, tool) = tool_generate(n, tool)
        /\ \A env \in CheckoutEnvs, n \in NeverIssued :
              create_checkout_session(t, env) = create_checkout_session(n, env)
        /\ \A n \in NeverIssued : logout(t) = logout(n)

\* After a logout, with a token left that was never issued, a tool request
\* was just turned away as unauthenticated.
C9_Witness ==
    /\ response = Unauthenticated("tool")
    /\ deleted # {}
    /\ NeverIssued \cap Tokens # {}

\* C10: the tokens that resolve to an identity are exactly those that
\* create_session returned and logout has not deleted, and each resolves to
\* the identity whose login created it; every other cookie value, an absent
\* or empty one included, resolves to nothing.
C10_ResolveExactlyIssued ==
    \A c \in Cookies :
        LET r == get_username_from_session(sessions, c) IN
        IF c \in DOMAIN issued \ deleted
        THEN r = issued[c]
        ELSE r = None

\* One token is live, one was deleted.
C10_Witness ==
    /\ DOMAIN sessions # {}
    /\ deleted # {}
    /\ response.op = "login"

\* C11: a login that succeeds stores exactly one more session: its token is
\* none of the live tokens, its record names the user and has no counter, so
\* every tool count read through it is 0, and every session that was live
\* before (those of the same user included) is still there with the same
\* owner and the same counters.
C11_LoginAddsOneSession ==
    \A username \in DOMAIN users_db, session_id \in token_urlsafe :
        LET o == login_post(username, users_db[username].password, session_id) IN
        /\ o.response = LoggedIn
        /\ session_id \notin DOMAIN sessions
        /\ DOMAIN o.sessions = DOMAIN sessions \cup {session_id}
        /\ o.sessions[session_id].username = username
        /\ o.sessions[session_id].counts = EmptyDict
        /\ \A tool \in Tools : get_usage_count(o.sessions, session_id, tool) = 0
        /\ \A t \in DOMAIN sessions : o.sessions[t] = sessions[t]

\* A second login of one user has just succeeded: the new session has no
\* counter while the user's earlier session keeps the counts it had reached.
C11_Witness ==
    /\ response = LoggedIn
    /\ \E t1, t2 \in DOMAIN sessions :
          /\ t1 # t2
          /\ sessions[t1].username = sessions[t2].username
          /\ sessions[t1].counts = EmptyDict
          /\ \E tool \in Tools : CurrentCount(t2, tool) >= 2

\* C12: a login stores a session exactly when the name is registered and the
\* password equals the stored one; in that case the store gains a record and
\* in every other case the response is the failure page and the session store
\* and the registry are what they were.  The registry is never changed by a
\* login.
C12_SessionIffCredentials ==
    \A username \in Names, password \in Passwords :
        LET good == /\ username \in DOMAIN users_db
                    /\ users_db[username].password = password
            \* the token is drawn only by a login that got through
            drawn == IF good THEN token_urlsafe ELSE {None}
        IN \A session_id \in drawn :
              LET o == login_post(username, password, session_id) IN
              /\ o.users_db = users_db
              /\ (o.sessions # sessions) <=> good
              /\ (o.response = LoggedIn) <=> good
              /\ good => DOMAIN o.sessions \ DOMAIN sessions = {session_id}
              /\ ~good => o = Outcome(AuthFailure, users_db, sessions)

\* Every name is registered, so the login that has just failed named a
\* registered user with the wrong password; another session is live.
C12_Witness ==
    /\ response = AuthFailure
    /\ DOMAIN users_db = Names
    /\ sessions # EmptyDict

\* C13: a login that fails tells nothing about the registry: in every
\* reachable state the whole outcome (the response and the stores left behind)
\* of a login naming an unregistered name is equal to that of a login naming
\* a registered name with a password that is not the stored one, and it is the
\* same failure page whatever password the unregistered name came with.
C13_FailureHidesRegistration ==
    \A known \in DOMAIN users_db, unknown \in Names \ DOMAIN users_db :
        \A wrong \in Passwords \ {users_db[known].password}, any \in Passwords :
            /\ login_post(unknown, any, None) = login_post(known, wrong, None)
            /\ login_post(unknown, any, None).response = AuthFailure
            /\ login_post(known, wrong, None).sessions = sessions

\* A login has just failed in a state where one name is registered and the
\* other is not, so the failure may be either kind.
C13_Witness ==
    /\ response = AuthFailure
    /\ DOMAIN users_db # {}
    /\ DOMAIN users_db # Names

\* C14: setting is_pro is idempotent: once a verified checkout-completed
\* event for a registered user has been processed the user is pro, and every
\* further such event for that user is acknowledged with status 200 and
\* leaves the registry and the session store exactly as they are.
C14_SecondEventChangesNothing ==
    \A u \in upgraded :
        /\ users_db[u].is_pro
        /\ \A ev \in Events :
              EventNames(ev, u) =>
                  stripe_webhook(ev) = Outcome(Acknowledged, users_db, sessions)

\* A verified checkout-completed event has just been acknowledged for a user
\* who is pro and logged in, while the other user is still free.
C14_Witness ==
    /\ response = Acknowledged
    /\ \E u \in upgraded :
          /\ users_db[u].is_pro
          /\ \E t \in DOMAIN sessions : sessions[t].username = u
    /\ \E v \in DOMAIN users_db : ~users_db[v].is_pro

\* Webhook deliveries that are rejected or carry another event type.
OtherEvents ==
    {ev \in Events : ev.verify # "event" \/ ev.type # CheckoutCompleted}

\* C15: only a verified checkout-completed webhook changes is_pro: every
\* step keeps every registered user, and a step after which a registered
\* user's is_pro differs is the handling of a verified
\* checkout.session.completed delivery; so register, login, logout, a tool
\* request, a checkout creation and a webhook delivery that is rejected or of
\* another type leave every is_pro as it was.  A user who is pro is one that
\* a verified checkout-completed event named.
C15_FlagOnlyByWebhook ==
    /\ [](\A u \in DOMAIN users_db : users_db[u].is_pro => u \in upgraded)
    /\ [][/\ DOMAIN users_db \subseteq DOMAIN users_db'
          /\ (\E u \in DOMAIN users_db : users_db'[u].is_pro # users_db[u].is_pro)
                => \E ev \in Events \ OtherEvents : WebhookRequest(ev)]_vars

\* A logged-in free user has just been given a checkout URL and is still
\* free, while the other user is pro.
C15_Witness ==
    /\ response = CheckoutUrl
    /\ \A t \in DOMAIN sessions : ~is_user_pro(users_db, sessions[t].username)
    /\ sessions # EmptyDict
    /\ \E u \in DOMAIN users_db : users_db[u].is_pro

\* C16: a checkout creation by a logged-in user when STRIPE_PRICE_ID is not
\* set answers with the configuration error, status 500, without calling the
\* payment processor and without changing the registry or the session store,
\* and the handlers keep answering in the state it leaves; a caller without a
\* live session is turned away without a processor call whatever the
\* configuration.
C16_MissingPriceIsConfigError ==
    /\ \A session_id \in Cookies, env \in CheckoutEnvs :
          LET o == create_checkout_session(session_id, env)
              username == require_login(sessions, session_id)
          IN /\ o.users_db = users_db /\ o.sessions = sessions
             /\ (username # None /\ env.price = None) =>
                    /\ o.response = ConfigError
                    /\ o.response.status = "500"
                    /\ ~o.processor_called
             /\ username = None =>
                    /\ o.response = Unauthenticated("checkout")
                    /\ ~o.processor_called
             /\ o.processor_called <=> (username # None /\ env.price # None)
    /\ response = ConfigError => ENABLED Next

\* The configuration error has just been returned to a logged-in user.
C16_Witness ==
    /\ response = ConfigError
    /\ response.status = "500"
    /\ sessions # EmptyDict

\* C17: delete_session removes exactly the record of a live token, leaving
\* every other session (those of the same user included) as it was, and is a
\* no-op for an absent, empty, never-issued or already deleted token; deleting
\* the same token again changes nothing more, and the logout that calls it
\* leaves the registry alone.
C17_DeleteExactlyThat ==
    \A session_id \in Cookies :
        LET S1 == delete_session(sessions, session_id) IN
        /\ DOMAIN S1 = DOMAIN sessions \ {session_id}
        /\ \A t \in DOMAIN S1 : S1[t] = sessions[t]
        /\ session_id \notin DOMAIN sessions => S1 = sessions
        /\ delete_session(S1, session_id) = S1
        /\ logout(session_id) = Outcome(LoggedOut, users_db, S1)

\* A logout has just deleted one of two sessions of one user: the other one
\* is live, with the counts it had.
C17_Witness ==
    /\ response = LoggedOut
    /\ \E d \in deleted, t \in DOMAIN sessions :
          /\ issued[d] = sessions[t].username
          /\ \E tool \in Tools : CurrentCount(t, tool) >= 1

\* C18: get_usage_count only reads: for every cookie value and tool it leaves
\* the session store as it is (no record and no counter appears), and it
\* returns 0 for an absent, empty, never-issued or deleted token and for a
\* tool the session has no counter for, and the stored counter otherwise.
C18_CountIsReadOnly ==
    \A session_id \in Cookies, tool_name \in Tools :
        LET n == get_usage_count(sessions, session_id, tool_name) IN
        /\ get_usage_count_store(sessions, session_id, tool_name) = sessions
        /\ n = IF session_id \in DOMAIN sessions
                  /\ tool_name \in DOMAIN sessions[session_id].counts
               THEN sessions[session_id].counts[tool_name]
               ELSE 0

\* The limit page has just been served from a count that was read and not
\* written: the session has used one tool three times and the other never,
\* and one token is not live.
C18_Witness ==
    /\ response = LimitReached
    /\ Tokens \ DOMAIN sessions # {}
    /\ \E t \in DOMAIN sessions, used, unused \in Tools :
          /\ used \in DOMAIN sessions[t].counts
          /\ sessions[t].counts[used] = 3
          /\ unused \notin DOMAIN sessions[t].counts

\* C19: every counter of every live session is an integer from 0 to 3, and
\* in every step, whichever request is handled, the count of every tool in
\* every session that stays live is unchanged or greater by exactly one: it
\* never decreases and never jumps.
C19_CountsBounded ==
    /\ [](\A t \in DOMAIN sessions :
            /\ DOMAIN sessions[t].counts \subseteq Tools
            /\ \A tool \in DOMAIN sessions[t].counts :
                  sessions[t].counts[tool] \in 0..FreeLimit
            /\ \A tool \in Tools : CurrentCount(t, tool) \in 0..FreeLimit)
    /\ [][\/ sessions' = sessions
          \/ \A t \in DOMAIN sessions \cap DOMAIN sessions', tool \in Tools :
                LET before == CountOf(sessions[t].counts, tool)
                    after == CountOf(sessions'[t].counts, tool)
                IN after = before \/ after = before + 1]_vars

\* A free session stands at the limit for one tool while the session of a
\* user who turned pro keeps the count it had reached before.
C19_Witness ==
    /\ \E t \in FreeSessions, tool \in Tools : CurrentCount(t, tool) = 3
    /\ \E t \in ProSessions, tool \in Tools : CurrentCount(t, tool) = 1
    /\ response = Allowed

\* C20: the e-mail a verified checkout-completed event is matched by is its
\* customer_email when that is present and not empty, and the email of its
\* customer_details object only otherwise: the registry afterwards is the
\* registry before with is_pro set for that one address if it is registered,
\* and nothing else; when both addresses are there and differ, the user named
\* by customer_details.email keeps the is_pro it had.
C20_CustomerEmailFirst ==
    \A ev \in Events :
        (ev.verify = "event" /\ ev.type = CheckoutCompleted) =>
            LET o == stripe_webhook(ev)
                first == ev.customer_email
                nested == IF ev.customer_details.tag = "object"
                          THEN ev.customer_details.email ELSE None
                used == IF first # None /\ first # "" THEN first ELSE nested
            IN /\ o.users_db = IF used \in DOMAIN users_db
                               THEN [users_db EXCEPT ![used].is_pro = TRUE]
                               ELSE users_db
               /\ o.sessions = sessions
               /\ (first \in Names /\ nested \in DOMAIN users_db /\ nested # first) =>
                      o.users_db[nested].is_pro = users_db[nested].is_pro

\* Both users are registered and a verified checkout-completed event has just
\* been acknowledged, yet events have named only one of them: that one is pro
\* and the other is still free.
C20_Witness ==
    /\ response = Acknowledged
    /\ DOMAIN users_db = Names
    /\ \E u \in Names :
          /\ upgraded = {u}
          /\ users_db[u].is_pro
          /\ \A v \in Names \ {u} : ~users_db[v].is_pro

\* C21: a verified event of a type other than checkout.session.completed is
\* answered {status: success} with status 200 and leaves the registry and
\* the session store as they are, also when its customer_email is the name
\* of a registered user, free or pro.
C21_OtherTypesIgnored ==
    \A ev \in Events :
        (ev.verify = "event" /\ ev.type # CheckoutCompleted) =>
            /\ stripe_webhook(ev) = Outcome(Acknowledged, users_db, sessions)
            /\ stripe_webhook(ev).response.status = "200"

\* A webhook delivery has just been acknowledged while every name an event
\* can carry is registered, logged in and still free, so no
\* checkout-completed event naming a user has been among the deliveries.
C21_Witness ==
    /\ response = Acknowledged
    /\ DOMAIN users_db = Names
    /\ upgraded = {}
    /\ {sessions[t].username : t \in DOMAIN sessions} = Names

\* C23: in every reachable state the owner of every live session is a
\* registered user and every session record has the dict shape
\* {username, usage_counts} with the username the login that created it
\* named, so get_session_data never takes its branch that rewrites a legacy
\* record: it leaves the store as it is for every cookie value.
C23_OwnersRegistered ==
    /\ \A t \in DOMAIN sessions :
          /\ sessions[t].username \in DOMAIN users_db
          /\ sessions[t].username = issued[t]
          /\ sessions[t].kind = "dict"
          /\ DOMAIN sessions[t] = {"kind", "username", "counts"}
    /\ \A session_id \in Cookies : get_session_data(sessions, session_id) = sessions

\* Sessions of both users are live, one of them has been metered (so
\* get_session_data has read its record), and a login has just succeeded.
C23_Witness ==
    /\ response = LoggedIn
    /\ {sessions[t].username : t \in DOMAIN sessions} = Names
    /\ \E t \in DOMAIN sessions : sessions[t].counts # EmptyDict

\* C24: is_pro is monotonic: in every step of every behaviour, whichever
\* request is handled (register, login, logout, a tool request, a checkout
\* creation or a webhook delivery of any type, verified or not), a user who
\* is pro before the step is still registered and pro after it.
C24_PaidStaysPaid ==
    [][\/ users_db' = users_db
       \/ \A u \in DOMAIN users_db :
             users_db[u].is_pro => (u \in DOMAIN users_db' /\ users_db'[u].is_pro)]_vars

\* A user was upgraded by a webhook and a later request, a logout that
\* deleted one of that user's sessions, has left them pro; the other user is
\* registered and free.
C24_Witness ==
    /\ response = LoggedOut
    /\ DOMAIN users_db = Names
    /\ \E u \in upgraded :
          /\ users_db[u].is_pro
          /\ \E d \in deleted : issued[d] = u
    /\ \E v \in Names : ~users_db[v].is_pro

\* C25: a tool request changes at most the one counter of its own session
\* and tool: whether it is let through or gets the limit page, the registry
\* and the set of live tokens are as before, every other session (those of
\* the same user included) has the record it had, and its own session has the
\* owner and, for every other tool, the counter it had.  The decision for a
\* free session depends on that one counter only, so a tool at the limit
\* does not make another tool limited.
C25_OneCounterOnly ==
    \A session_id \in Cookies, tool_name \in Tools :
        LET o == tool_generate(session_id, tool_name) IN
        /\ o.users_db = users_db
        /\ DOMAIN o.sessions = DOMAIN sessions
        /\ \A t \in DOMAIN sessions \ {session_id} : o.sessions[t] = sessions[t]
        /\ session_id \in DOMAIN sessions =>
              /\ o.sessions[session_id].username = sessions[session_id].username
              /\ \A other \in Tools \ {tool_name} :
                    /\ (other \in DOMAIN o.sessions[session_id].counts)
                           = (other \in DOMAIN sessions[session_id].counts)
                    /\ get_usage_count(o.sessions, session_id, other)
                           = CurrentCount(session_id, other)
              /\ o.response \in {Allowed, LimitReached}
              /\ ~is_user_pro(users_db, sessions[session_id].username) =>
                    ((o.response = LimitReached) <=>
                        (CurrentCount(session_id, tool_name) >= FreeLimit))

\* A free user with two sessions has just been let through on one tool in a
\* session that is at the limit for the other tool, and the user's other
\* session has no counter at all.
C25_Witness ==
    /\ response = Allowed
    /\ \E t1, t2 \in FreeSessions, full, used \in Tools :
          /\ t1 # t2
          /\ sessions[t1].username = sessions[t2].username
          /\ full # used
          /\ CurrentCount(t1, full) = 3
          /\ CurrentCount(t1, used) = 1
          /\ sessions[t2].counts = EmptyDict

\* C26: a tool request or a checkout creation that presents no cookie, an
\* empty one, a value create_session never returned or a token that logout
\* deleted is answered with the redirect of require_login before anything
\* is metered: it is never let through, the processor is not called, and the
\* registry and the session store (every counter, the set of records) are
\* left as they are.  The live session records are exactly those that a
\* successful login created and no logout deleted.
C26_BadTokenRejectedFirst ==
    /\ \A session_id \in NeverIssued \cup deleted :
          /\ \A tool_name \in Tools :
                tool_generate(session_id, tool_name)
                    = Outcome(Unauthenticated("tool"), users_db, sessions)
          /\ \A env \in CheckoutEnvs :
                create_checkout_session(session_id, env)
                    = Checkout(Unauthenticated("checkout"), FALSE)
    /\ DOMAIN sessions = DOMAIN issued \ deleted

\* A checkout creation with a bad cookie has just been turned away while a
\* token is deleted, another is live with a counter, and its owner is free.
C26_Witness ==
    /\ response = Unauthenticated("checkout")
    /\ deleted # {}
    /\ \E t \in FreeSessions : sessions[t].counts # EmptyDict

====
